---- MODULE Spec2Model ----
(***************************************************************************)
(* A model of zf_rush: the proxy pool (src/src/zf_rush/proxy.py) and the   *)
(* retrying request executor (src/src/zf_rush/client.py).                  *)
(*                                                                         *)
(* Strings are sequences of one-character strings, so that parsing and     *)
(* formatting are computed and not assumed.  Python's None is the value    *)
(* NoneVal, which no character sequence equals.                            *)
(*                                                                         *)
(* asyncio is cooperative: a task runs from one suspension point (an       *)
(* await that really suspends) to the next without interleaving.  The      *)
(* variable `running` names the task that holds the event loop; a task's   *)
(* step is enabled only when the loop is free or the task itself holds it. *)
(*                                                                         *)
(* What the model takes as given:                                          *)
(*  - _init_providers reads the names `debug` and `debug_proxy`            *)
(*    (proxy.py:66), which proxy.py neither defines nor imports; they are  *)
(*    inputs of the construction here.                                     *)
(*  - _create_http_client reads self.cache_data (client.py:72), which      *)
(*    BaseApiClient never sets; the concrete client is taken to supply it, *)
(*    and building an httpx.AsyncClient does not raise.                    *)
(*  - aclose() of a client (client.py:125) ends without letting another    *)
(*    task run.                                                            *)
(*  - The providers are DebugProxyProvider and RemoteProxyProvider, whose  *)
(*    get_proxy raises nothing but CancelledError.  SpecRaising adds       *)
(*    provider calls that raise an exception, as the get_proxy of another  *)
(*    ProxyProvider subclass may; SpecFair adds the scheduling of the      *)
(*    event loop as fairness.                                              *)
(*  - urlparse and ipaddress behave as in current CPython: a port is       *)
(*    ASCII digits of value 0..65535, an octet has no leading zero.        *)
(***************************************************************************)
EXTENDS Integers, Sequences, FiniteSets, TLC

(***************************************************************************)
(* Strings                                                                 *)
(***************************************************************************)
NoneVal == <<"None">>

DigitChars == <<"0", "1", "2", "3", "4", "5", "6", "7", "8", "9">>

IsDigit(c) == \E d \in 1..10 : DigitChars[d] = c

DigitVal(c) == (CHOOSE d \in 1..10 : DigitChars[d] = c) - 1

LowerLetters == {"a", "b", "c", "d", "e", "f", "h", "k", "n", "o", "p", "s", "t", "u", "x"}

UpperLetters == {"H", "T", "P", "S", "N"}

\* str.lower() on the letters the model uses
LowerChar(c) ==
    CASE c = "H" -> "h"
      [] c = "T" -> "t"
      [] c = "P" -> "p"
      [] c = "S" -> "s"
      [] c = "N" -> "n"
      [] OTHER -> c

Lower(s) == [k \in 1..Len(s) |-> LowerChar(s[k])]

IsAlpha(c) == c \in LowerLetters \cup UpperLetters

\* urllib.parse.scheme_chars
SchemeChars == LowerLetters \cup UpperLetters \cup {DigitChars[d] : d \in 1..10} \cup {"+", "-", "."}

\* 1-based index of the first c in s, 0 when absent (str.find)
Find(s, c) ==
    IF \E k \in 1..Len(s) : s[k] = c
    THEN CHOOSE k \in 1..Len(s) : s[k] = c /\ \A j \in 1..(k - 1) : s[j] # c
    ELSE 0

\* 1-based index of the last c in s, 0 when absent (str.rfind)
RFind(s, c) ==
    IF \E k \in 1..Len(s) : s[k] = c
    THEN CHOOSE k \in 1..Len(s) : s[k] = c /\ \A j \in (k + 1)..Len(s) : s[j] # c
    ELSE 0

\* 1-based index of the first character of s that is in cs, 0 when absent
FindAny(s, cs) ==
    IF \E k \in 1..Len(s) : s[k] \in cs
    THEN CHOOSE k \in 1..Len(s) : s[k] \in cs /\ \A j \in 1..(k - 1) : s[j] \notin cs
    ELSE 0

RECURSIVE Split(_, _)
\* str.split(c)
Split(s, c) ==
    LET k == Find(s, c)
    IN  IF k = 0 THEN <<s>>
        ELSE <<SubSeq(s, 1, k - 1)>> \o Split(SubSeq(s, k + 1, Len(s)), c)

RECURSIVE ToInt(_)
\* int(s) of a string of ASCII digits
ToInt(s) ==
    IF s = <<>> THEN 0
    ELSE ToInt(SubSeq(s, 1, Len(s) - 1)) * 10 + DigitVal(s[Len(s)])

RECURSIVE Decimal(_)
\* str(n) of a natural number
Decimal(n) ==
    IF n < 10 THEN <<DigitChars[n + 1]>>
    ELSE Decimal(n \div 10) \o <<DigitChars[(n % 10) + 1]>>

Whitespace == {" ", "\n", "\t", "\r"}

RECURSIVE LStrip(_)
LStrip(s) == IF s # <<>> /\ s[1] \in Whitespace THEN LStrip(Tail(s)) ELSE s

RECURSIVE RStrip(_)
RStrip(s) ==
    IF s # <<>> /\ s[Len(s)] \in Whitespace THEN RStrip(SubSeq(s, 1, Len(s) - 1)) ELSE s

\* str.strip()
Strip(s) == RStrip(LStrip(s))

HttpPrefix == <<"h", "t", "t", "p", ":", "/", "/">>

SchemeHttp == <<"h", "t", "t", "p">>

SchemeHttps == <<"h", "t", "t", "p", "s">>

(***************************************************************************)
(* urllib.parse.urlparse, as far as _validate_proxy reads its result:      *)
(* scheme, hostname and port.                                              *)
(***************************************************************************)
urlparse(url) ==
    LET i == Find(url, ":")
        hasScheme == /\ i > 1
                     /\ IsAlpha(url[1])
                     /\ \A k \in 1..(i - 1) : url[k] \in SchemeChars
        scheme == IF hasScheme THEN Lower(SubSeq(url, 1, i - 1)) ELSE <<>>
        rest == IF hasScheme THEN SubSeq(url, i + 1, Len(url)) ELSE url
        hasNetloc == Len(rest) >= 2 /\ rest[1] = "/" /\ rest[2] = "/"
        after == SubSeq(rest, 3, Len(rest))
        delim == FindAny(after, {"/", "?", "#"})
        netloc == IF ~hasNetloc THEN <<>>
                  ELSE IF delim = 0 THEN after
                  ELSE SubSeq(after, 1, delim - 1)
    IN  [scheme |-> scheme, netloc |-> netloc]

\* SplitResult._hostinfo without the bracketed (IPv6) form
hostinfo(parsed) ==
    LET at == RFind(parsed.netloc, "@")
        hi == SubSeq(parsed.netloc, at + 1, Len(parsed.netloc))
        colon == Find(hi, ":")
        host == IF colon = 0 THEN hi ELSE SubSeq(hi, 1, colon - 1)
        port == IF colon = 0 THEN <<>> ELSE SubSeq(hi, colon + 1, Len(hi))
    IN  [hostname |-> host, port |-> IF port = <<>> THEN NoneVal ELSE port]

\* SplitResult.hostname
hostname(parsed) ==
    LET h == hostinfo(parsed).hostname
    IN  IF h = <<>> THEN NoneVal ELSE Lower(h)

\* SplitResult.port: an integer, None, or ValueError raised
port(parsed) ==
    LET p == hostinfo(parsed).port
    IN  IF p = NoneVal THEN [kind |-> "none", val |-> 0]
        ELSE IF ~(\A k \in 1..Len(p) : IsDigit(p[k])) THEN [kind |-> "ValueError", val |-> 0]
        ELSE IF ~(0 <= ToInt(p) /\ ToInt(p) <= 65535) THEN [kind |-> "ValueError", val |-> 0]
        ELSE [kind |-> "int", val |-> ToInt(p)]

\* ipaddress.IPv4Address._parse_octet: TRUE when the octet is accepted
parse_octet(o) ==
    /\ o # <<>>
    /\ \A k \in 1..Len(o) : IsDigit(o[k])
    /\ Len(o) <= 3
    /\ ~(o # <<"0">> /\ o[1] = "0")
    /\ ToInt(o) <= 255

\* ipaddress.IPv4Address(address): TRUE when no AddressValueError is raised.
\* A non-string argument is converted with str(), so None reads "None".
IPv4Address(address) ==
    LET addr == IF address = NoneVal THEN <<"N", "o", "n", "e">> ELSE address
        octets == Split(addr, ".")
    IN  /\ Find(addr, "/") = 0
        /\ Len(octets) = 4
        /\ \A k \in 1..4 : parse_octet(octets[k])

\* A plausible slip: the port is not required
validate_proxy_port_optional(proxy) ==
    LET parsed == urlparse(proxy)
    IN  /\ parsed.scheme \in {SchemeHttp, SchemeHttps}
        /\ IPv4Address(hostname(parsed))
        /\ port(parsed).kind # "ValueError"

\* ProxyPool._validate_proxy
_validate_proxy(proxy) ==
    LET parsed == urlparse(proxy)
    IN  IF parsed.scheme \notin {SchemeHttp, SchemeHttps} THEN FALSE
        ELSE IF ~IPv4Address(hostname(parsed)) THEN FALSE
        ELSE IF port(parsed).kind = "ValueError" THEN FALSE
        ELSE IF port(parsed).kind = "none" \/ port(parsed).val = 0 THEN FALSE
        ELSE IF ~(1 <= port(parsed).val /\ port(parsed).val <= 65535) THEN FALSE
        ELSE TRUE

(***************************************************************************)
(* Address strings, put together from pieces.  Each piece carries what it  *)
(* is meant to be, so that the expected verdict is read off the pieces     *)
(* while _validate_proxy has to parse the assembled string.                *)
(***************************************************************************)
SchemePieces ==
    { [chars |-> SchemeHttp, name |-> "http"],
      [chars |-> SchemeHttps, name |-> "https"],
      [chars |-> <<"H", "T", "T", "P">>, name |-> "http"],
      [chars |-> <<"f", "t", "p">>, name |-> "ftp"],
      [chars |-> <<"s", "o", "c", "k", "s", "5">>, name |-> "socks5"],
      [chars |-> <<>>, name |-> ""] }

SepPieces ==
    { [chars |-> <<":", "/", "/">>, authority |-> TRUE],
      [chars |-> <<":">>, authority |-> FALSE] }

UserPieces == { <<>>, <<"u", "@">> }

OctetPieces ==
    { [chars |-> Decimal(n), ok |-> n <= 255] : n \in {0, 1, 9, 192, 255, 256, 999, 1234} }
    \cup { [chars |-> <<>>, ok |-> FALSE],
           [chars |-> <<"a">>, ok |-> FALSE],
           [chars |-> <<"0", "1">>, ok |-> FALSE] }

GoodOctets == << [chars |-> <<"1">>, ok |-> TRUE], [chars |-> <<"2">>, ok |-> TRUE],
                 [chars |-> <<"3">>, ok |-> TRUE], [chars |-> <<"4">>, ok |-> TRUE] >>

HostPieces ==
    { [GoodOctets EXCEPT ![k] = o] : k \in {1, 4}, o \in OctetPieces }
    \cup { <<>>, SubSeq(GoodOctets, 1, 3), GoodOctets \o <<GoodOctets[1]>> }

PortPieces ==
    { [kind |-> "num", n |-> n, pad |-> z] :
        n \in {0, 1, 80, 8080, 65535, 65536, 70000}, z \in {0, 2} }
    \cup { [kind |-> "absent", n |-> 0, pad |-> 0],
           [kind |-> "empty", n |-> 0, pad |-> 0],
           [kind |-> "text", n |-> 0, pad |-> 0] }

TailPieces == { <<>>, <<"/">>, <<"/", "x">> }

RECURSIVE JoinHost(_)
JoinHost(h) ==
    IF h = <<>> THEN <<>>
    ELSE IF Len(h) = 1 THEN h[1].chars
    ELSE h[1].chars \o <<".">> \o JoinHost(Tail(h))

PortChars(p) ==
    CASE p.kind = "absent" -> <<>>
      [] p.kind = "empty" -> <<":">>
      [] p.kind = "text" -> <<":", "x">>
      [] p.kind = "num" -> <<":">> \o [k \in 1..p.pad |-> "0"] \o Decimal(p.n)

Assemble(parts) ==
    parts.scheme.chars \o parts.sep.chars \o parts.user \o JoinHost(parts.host)
        \o PortChars(parts.port) \o parts.tail

AddressParts ==
    [scheme : SchemePieces, sep : SepPieces, user : UserPieces, host : HostPieces,
     port : PortPieces, tail : TailPieces]

\* What the pieces say: an http or https scheme, an authority whose host is four
\* decimal octets of 0..255 without leading zeros, and a port number in 1..65535.
ExpectedValid(parts) ==
    /\ parts.scheme.name \in {"http", "https"}
    /\ parts.sep.authority
    /\ Len(parts.host) = 4
    /\ \A k \in 1..Len(parts.host) : parts.host[k].ok
    /\ parts.port.kind = "num"
    /\ 1 <= parts.port.n /\ parts.port.n <= 65535

(***************************************************************************)
(* Bounds of the model                                                     *)
(***************************************************************************)
\* number of tasks that call get_next_proxy / _request_with_retry concurrently
NumCallers == 2

\* number of calls one such task makes, one after the other
MaxCalls == 1

\* largest configured max_retries
MaxRetries == 1

\* longest configured proxy_platforms list
MaxPlatforms == 2

\* invalid_proxy_count is counted up to this value; the preload worker that
\* would count further is not scheduled again
MaxInvalid == 1

\* number of times close() is called
MaxCloses == 2

\* number of exceptions a provider call raises into the preload worker
MaxExceptions == 1

(***************************************************************************)
(* Tasks                                                                   *)
(***************************************************************************)
Worker == 0

Callers == 1..NumCallers

Idle == -1

VARIABLES
    app_config,           \* AppConfig: proxy_config and max_retries
    debug,                \* the names `debug` and `debug_proxy` that
    debug_proxy,          \*   _init_providers reads
    providers,            \* ProxyPool.providers
    proxy_queue,          \* ProxyPool.proxy_queue, an asyncio.Queue(maxsize=1)
    lock,                 \* ProxyPool.lock, an asyncio.Lock
    stop_event,           \* ProxyPool._stop_event
    invalid_proxy_count,  \* ProxyPool.invalid_proxy_count
    preload_task,         \* ProxyPool._preload_task and where _preload_worker stands
    closer,               \* the task that calls ProxyPool.close()
    caller,               \* the tasks that call get_next_proxy / _request_with_retry
    async_client,         \* BaseApiClient._async_client: an index into clients, 0 for None
    clients,              \* the httpx.AsyncClient objects created so far
    current_proxy,        \* BaseApiClient.current_proxy
    running,              \* the task that holds the event loop, or Idle
    vParts,               \* the address string handed to _validate_proxy, in pieces
    vResult               \* what _validate_proxy returned for it

cfgVars == <<app_config, debug, debug_proxy, providers>>

poolVars == <<proxy_queue, lock, stop_event, invalid_proxy_count>>

execVars == <<async_client, clients, current_proxy>>

valVars == <<vParts, vResult>>

vars == <<app_config, debug, debug_proxy, providers, proxy_queue, lock, stop_event,
          invalid_proxy_count, preload_task, closer, caller,
          async_client, clients, current_proxy, running, vParts, vResult>>

(***************************************************************************)
(* Configuration and provider initialisation                               *)
(***************************************************************************)
\* a platform entry without a "priority" key
NoPriority == -1

AddrA == HttpPrefix \o <<"1", ".", "2", ".", "3", ".", "4", ":", "8", "0">>

AddrB == HttpPrefix \o <<"9", ".", "9", ".", "9", ".", "9", ":", "1">>

\* response bodies of a platform's get_proxy_link: an address with a trailing
\* newline, and a body that holds no address
GoodBody == <<"9", ".", "9", ".", "9", ".", "9", ":", "1", "\n">>

Bodies == { GoodBody, <<"\n">> }

PlatformEntries ==
    { [name |-> "yi", priority |-> 2, link |-> "L1"],
      [name |-> "yi", priority |-> NoPriority, link |-> "L2"],
      [name |-> "other", priority |-> 0, link |-> "L3"] }

NoPlatform == [name |-> "", priority |-> NoPriority, link |-> ""]

RECURSIVE SeqsUpTo(_, _)
SeqsUpTo(S, n) ==
    IF n = 0 THEN { <<>> }
    ELSE SeqsUpTo(S, n - 1)
         \cup { Append(s, x) : s \in { t \in SeqsUpTo(S, n - 1) : Len(t) = n - 1 }, x \in S }

\* x.get("priority", 1)
PriorityKey(p) == IF p.priority = NoPriority THEN 1 ELSE p.priority

RECURSIVE Filter(_, _)
\* [p for p in platforms if p["name"] == use]
Filter(platforms, use) ==
    IF platforms = <<>> THEN <<>>
    ELSE IF Head(platforms).name = use
         THEN <<Head(platforms)>> \o Filter(Tail(platforms), use)
         ELSE Filter(Tail(platforms), use)

\* insert p after the entries whose key is not larger: list.sort is stable
RECURSIVE InsertByPriority(_, _)
InsertByPriority(sorted, p) ==
    IF sorted = <<>> THEN <<p>>
    ELSE IF PriorityKey(Head(sorted)) <= PriorityKey(p)
         THEN <<Head(sorted)>> \o InsertByPriority(Tail(sorted), p)
         ELSE <<p>> \o sorted

RECURSIVE SortByPriority(_)
\* platforms.sort(key=lambda x: x.get("priority", 1))
SortByPriority(platforms) ==
    IF platforms = <<>> THEN <<>>
    ELSE InsertByPriority(SortByPriority(SubSeq(platforms, 1, Len(platforms) - 1)),
                          platforms[Len(platforms)])

DebugProxyProvider(proxy) == [kind |-> "debug", proxy |-> proxy, platform |-> NoPlatform]

RemoteProxyProvider(platform) == [kind |-> "remote", proxy |-> NoneVal, platform |-> platform]

\* A plausible slip: the disabled configuration is not honoured
init_providers_ignore_enable(conf, dbg, dbg_proxy) ==
    IF dbg /\ dbg_proxy # NoneVal THEN <<DebugProxyProvider(dbg_proxy)>>
    ELSE IF conf.use = "debug_proxy"
         THEN IF dbg_proxy # NoneVal THEN <<DebugProxyProvider(dbg_proxy)>> ELSE <<>>
         ELSE LET platforms == SortByPriority(Filter(conf.proxy_platforms, conf.use))
              IN  [k \in 1..Len(platforms) |-> RemoteProxyProvider(platforms[k])]

\* ProxyPool._init_providers: the provider list it leaves in self.providers
_init_providers(conf, dbg, dbg_proxy) ==
    IF ~conf.enable THEN <<>>
    ELSE IF dbg /\ dbg_proxy # NoneVal THEN <<DebugProxyProvider(dbg_proxy)>>
    ELSE IF conf.use = "debug_proxy"
         THEN IF dbg_proxy # NoneVal THEN <<DebugProxyProvider(dbg_proxy)>> ELSE <<>>
         ELSE LET platforms == SortByPriority(Filter(conf.proxy_platforms, conf.use))
              IN  [k \in 1..Len(platforms) |-> RemoteProxyProvider(platforms[k])]

\* self._cooldown_time and self._full_queue_cooldown, in tenths of a time unit
CooldownTime == 5

FullQueueCooldown == 50

\* ProxyPool._start_preload: the state of self._preload_task after it
_start_preload(provs) ==
    IF provs # <<>>
    THEN [pc |-> "created", i |-> 0, wait_time |-> CooldownTime, cancel |-> FALSE,
          excs |-> 0]
    ELSE [pc |-> "none", i |-> 0, wait_time |-> CooldownTime, cancel |-> FALSE,
          excs |-> 0]

(***************************************************************************)
(* asyncio.Queue(maxsize=1) and asyncio.Lock                               *)
(***************************************************************************)
QueueMaxSize == 1

\* A plausible slip: asyncio.Queue() without maxsize is never full
queue_never_full(q) == FALSE

\* A plausible slip: the worker takes the buffer for full at every test
queue_always_full(q) == TRUE

\* proxy_queue.full(), which put_nowait consults too
queue_full(q) == Len(q) >= QueueMaxSize

Truthy(p) == p # NoneVal /\ p # <<>>

\* The future of a lock waiter is cancelled when its task was cancelled before
\* the future was given its result; only the preload task is ever cancelled.
FutCancelled(l, t) == t = Worker /\ preload_task.cancel /\ t \notin l.woken

\* asyncio.Lock._wake_up_first
WakeUpFirst(l) ==
    IF l.waiters = <<>> THEN l
    ELSE IF Head(l.waiters) \notin l.woken /\ ~FutCancelled(l, Head(l.waiters))
         THEN [l EXCEPT !.woken = @ \cup {Head(l.waiters)}]
         ELSE l

\* asyncio.Lock.acquire up to its first suspension
AcquireLock(l, t) ==
    IF ~l.locked /\ \A k \in 1..Len(l.waiters) : FutCancelled(l, l.waiters[k])
    THEN [lock |-> [l EXCEPT !.locked = TRUE], acquired |-> TRUE]
    ELSE [lock |-> [l EXCEPT !.waiters = Append(@, t)], acquired |-> FALSE]

RemoveWaiter(ws, t) == SelectSeq(ws, LAMBDA x : x # t)

\* asyncio.Lock.acquire after its future got a result
LockResume(l, t) ==
    [locked |-> TRUE, waiters |-> RemoveWaiter(l.waiters, t), woken |-> l.woken \ {t}]

\* asyncio.Lock.acquire when CancelledError is thrown into it
LockCancelled(l, t) ==
    LET l1 == [l EXCEPT !.waiters = RemoveWaiter(@, t), !.woken = @ \ {t}]
    IN  IF ~l1.locked THEN WakeUpFirst(l1) ELSE l1

\* asyncio.Lock.release
ReleaseLock(l) == WakeUpFirst([l EXCEPT !.locked = FALSE])

\* A plausible slip: the fallback scan does not take the lock
fallback_scan_unguarded(l, t) == [lock |-> l, acquired |-> TRUE]

\* `async with self.lock` of get_next_proxy
fallback_enter_scan(l, t) == AcquireLock(l, t)

\* `async with self.lock` of _preload_worker
worker_enter_scan(l) == AcquireLock(l, Worker)

(***************************************************************************)
(* Providers                                                               *)
(***************************************************************************)
\* what client.get(get_proxy_link) does: raises (NoneVal) or answers with a body
RemoteOutcomes == {NoneVal} \cup Bodies

\* a platform whose link is in ReliableLinks answers every request with an address
ReliableLinks == {"LR"}

OutcomesOf(provider) ==
    IF provider.platform.link \in ReliableLinks THEN {GoodBody} ELSE RemoteOutcomes

\* RemoteProxyProvider.get_proxy
RemoteGetProxy(outcome) ==
    IF outcome = NoneVal THEN NoneVal ELSE HttpPrefix \o Strip(outcome)

(***************************************************************************)
(* ProxyPool._preload_worker                                               *)
(*                                                                         *)
(* preload_task.pc: "none" (self._preload_task is None), "created" (the    *)
(* task has not run yet), "lockwait" (line 108), "scan" (line 109, holding *)
(* the lock), "fetch" (line 113), "after" (line 125), "sleep" (line 126),  *)
(* "backoff" (line 133), "done" (returned), "cancelled" (ended by          *)
(* CancelledError).  wait_time is in tenths of a time unit; excs counts    *)
(* the exceptions the handler of lines 131-133 has caught.                 *)
(***************************************************************************)
TaskDone(task) == task.pc \in {"done", "cancelled"}

\* lines 98-108: the loop head, up to the lock
W_Loop ==
    /\ running = Idle
    /\ preload_task.pc \in {"created", "sleep", "backoff"}
    /\ ~preload_task.cancel
    /\ IF stop_event
       THEN /\ preload_task' = [preload_task EXCEPT !.pc = "done"]
            /\ UNCHANGED <<lock, running>>
       ELSE IF queue_full(proxy_queue)
       THEN /\ preload_task' = [preload_task EXCEPT !.pc = "sleep",
                                                    !.wait_time = FullQueueCooldown]
            /\ UNCHANGED <<lock, running>>
       ELSE LET r == worker_enter_scan(lock)
            IN  /\ lock' = r.lock
                /\ preload_task' = [preload_task EXCEPT
                                       !.pc = IF r.acquired THEN "scan" ELSE "lockwait",
                                       !.i = 1,
                                       !.wait_time = CooldownTime]
                /\ running' = IF r.acquired THEN Worker ELSE Idle
    /\ UNCHANGED <<cfgVars, proxy_queue, stop_event, invalid_proxy_count, closer, caller, execVars, valVars>>

\* line 108: the lock is handed to the waiting worker
W_LockGranted ==
    /\ running = Idle
    /\ preload_task.pc = "lockwait"
    /\ ~preload_task.cancel
    /\ Worker \in lock.woken
    /\ lock' = LockResume(lock, Worker)
    /\ preload_task' = [preload_task EXCEPT !.pc = "scan", !.i = 1]
    /\ running' = Worker
    /\ UNCHANGED <<cfgVars, proxy_queue, stop_event, invalid_proxy_count, closer, caller, execVars, valVars>>

\* The addresses the providers of the model can hand to the worker, and those of
\* them that _validate_proxy accepts, computed once.
Candidates == {AddrA} \cup { RemoteGetProxy(o) : o \in Bodies }

ValidCandidates == { p \in Candidates : _validate_proxy(p) }

\* line 114: self._validate_proxy(proxy)
validate_candidate(proxy) ==
    IF proxy \in Candidates THEN proxy \in ValidCandidates ELSE _validate_proxy(proxy)

\* A plausible slip: the candidate is buffered without being validated
WorkerGotUnvalidated(proxy) ==
    IF Truthy(proxy)
    THEN IF queue_full(proxy_queue)
         THEN /\ lock' = ReleaseLock(lock)
              /\ preload_task' = [preload_task EXCEPT !.pc = "after"]
              /\ UNCHANGED <<proxy_queue, invalid_proxy_count>>
         ELSE /\ proxy_queue' = Append(proxy_queue, proxy)
              /\ preload_task' = [preload_task EXCEPT !.pc = "scan", !.i = @ + 1,
                                                      !.wait_time = 0]
              /\ UNCHANGED <<lock, invalid_proxy_count>>
    ELSE /\ invalid_proxy_count < MaxInvalid
         /\ invalid_proxy_count' = invalid_proxy_count + 1
         /\ preload_task' = [preload_task EXCEPT !.pc = "scan", !.i = @ + 1]
         /\ UNCHANGED <<lock, proxy_queue>>

\* lines 114-122: what the worker does with a candidate
WorkerGot(proxy) ==
    IF Truthy(proxy) /\ validate_candidate(proxy)
    THEN IF queue_full(proxy_queue)
         THEN \* QueueFull: break, leave the lock
              /\ lock' = ReleaseLock(lock)
              /\ preload_task' = [preload_task EXCEPT !.pc = "after"]
              /\ UNCHANGED <<proxy_queue, invalid_proxy_count>>
         ELSE /\ proxy_queue' = Append(proxy_queue, proxy)
              /\ preload_task' = [preload_task EXCEPT !.pc = "scan", !.i = @ + 1,
                                                      !.wait_time = 0]
              /\ UNCHANGED <<lock, invalid_proxy_count>>
    ELSE /\ invalid_proxy_count < MaxInvalid
         /\ invalid_proxy_count' = invalid_proxy_count + 1
         /\ preload_task' = [preload_task EXCEPT !.pc = "scan", !.i = @ + 1]
         /\ UNCHANGED <<lock, proxy_queue>>

\* lines 109-113: the head of the provider loop
W_ScanHead ==
    /\ running = Worker
    /\ preload_task.pc = "scan"
    /\ IF preload_task.i > Len(providers)
       THEN /\ lock' = ReleaseLock(lock)
            /\ preload_task' = [preload_task EXCEPT !.pc = "after"]
            /\ UNCHANGED <<proxy_queue, invalid_proxy_count, running>>
       ELSE IF stop_event
       THEN \* return inside `async with`
            /\ lock' = ReleaseLock(lock)
            /\ preload_task' = [preload_task EXCEPT !.pc = "done"]
            /\ running' = Idle
            /\ UNCHANGED <<proxy_queue, invalid_proxy_count>>
       ELSE IF providers[preload_task.i].kind = "debug"
       THEN \* DebugProxyProvider.get_proxy does not suspend
            /\ WorkerGot(providers[preload_task.i].proxy)
            /\ UNCHANGED running
       ELSE /\ preload_task' = [preload_task EXCEPT !.pc = "fetch"]
            /\ running' = Idle
            /\ UNCHANGED <<lock, proxy_queue, invalid_proxy_count>>
    /\ UNCHANGED <<cfgVars, stop_event, closer, caller,
                   execVars, valVars>>

\* line 113: RemoteProxyProvider.get_proxy returns
W_FetchReturn ==
    /\ running = Idle
    /\ preload_task.pc = "fetch"
    /\ ~preload_task.cancel
    /\ \E outcome \in OutcomesOf(providers[preload_task.i]) :
          WorkerGot(RemoteGetProxy(outcome))
    /\ running' = Worker
    /\ UNCHANGED <<cfgVars, stop_event, closer, caller,
                   execVars, valVars>>

\* lines 125-126 and, when the stop signal is set, the loop test of line 98
W_After ==
    /\ running = Worker
    /\ preload_task.pc = "after"
    /\ preload_task' = [preload_task EXCEPT !.pc = IF stop_event THEN "done" ELSE "sleep"]
    /\ running' = Idle
    /\ UNCHANGED <<cfgVars, poolVars, closer, caller, execVars, valVars>>

\* A plausible slip: the cancelled worker ends without leaving the lock
W_CancelledKeepsLock ==
    /\ running = Idle
    /\ preload_task.cancel
    /\ preload_task.pc \in {"lockwait", "fetch", "sleep"}
    /\ lock' = CASE preload_task.pc = "lockwait" -> LockCancelled(lock, Worker)
                 [] OTHER -> lock
    /\ preload_task' = [preload_task EXCEPT !.pc = "done"]
    /\ UNCHANGED <<cfgVars, proxy_queue, stop_event, invalid_proxy_count, closer, caller, execVars, valVars, running>>

\* lines 128-130: CancelledError is thrown into the worker where it is suspended
W_Cancelled ==
    /\ running = Idle
    /\ preload_task.cancel
    /\ preload_task.pc \in {"lockwait", "fetch", "sleep"}
    /\ lock' = CASE preload_task.pc = "fetch" -> ReleaseLock(lock)
                 [] preload_task.pc = "lockwait" -> LockCancelled(lock, Worker)
                 [] OTHER -> lock
    /\ preload_task' = [preload_task EXCEPT !.pc = "done"]
    /\ UNCHANGED <<cfgVars, proxy_queue, stop_event, invalid_proxy_count, closer, caller, execVars, valVars, running>>

\* A plausible slip: without the handler of lines 131-133 the exception ends
\* the task
W_FetchRaiseEndsTask ==
    /\ running = Idle
    /\ preload_task.pc = "fetch"
    /\ ~preload_task.cancel
    /\ preload_task.excs < MaxExceptions
    /\ lock' = ReleaseLock(lock)
    /\ preload_task' = [preload_task EXCEPT !.pc = "done", !.excs = @ + 1]
    /\ UNCHANGED <<cfgVars, proxy_queue, stop_event, invalid_proxy_count, closer, caller, execVars, valVars, running>>

\* lines 113 and 131-133: the provider call raises an exception, which leaves
\* `async with self.lock` and is caught; the worker sleeps for 1 time unit
W_FetchRaise ==
    /\ running = Idle
    /\ preload_task.pc = "fetch"
    /\ ~preload_task.cancel
    /\ preload_task.excs < MaxExceptions
    /\ lock' = ReleaseLock(lock)
    /\ preload_task' = [preload_task EXCEPT !.pc = "backoff", !.excs = @ + 1]
    /\ UNCHANGED <<cfgVars, proxy_queue, stop_event, invalid_proxy_count, closer, caller, execVars, valVars, running>>

\* line 133: CancelledError is thrown into the sleep of the handler; no handler
\* is around it, and the task ends by CancelledError
W_CancelledInBackoff ==
    /\ running = Idle
    /\ preload_task.cancel
    /\ preload_task.pc = "backoff"
    /\ preload_task' = [preload_task EXCEPT !.pc = "cancelled"]
    /\ UNCHANGED <<cfgVars, poolVars, closer, caller, execVars, valVars, running>>

(***************************************************************************)
(* ProxyPool.get_next_proxy                                                *)
(*                                                                         *)
(* The attribute self.current_proxy of the pool (lines 171 and 181) is     *)
(* written and never read; the model leaves it out.                        *)
(*                                                                         *)
(* caller[c].pc: "idle", "glockwait" (line 177), "gscan" (line 178,        *)
(* holding the lock), "gfetch" (line 179), "gret" (get_next_proxy has      *)
(* returned caller[c].ret to the call site caller[c].site), and the        *)
(* positions of _request_with_retry below.  at_call is the buffer as the   *)
(* call found it and scan the list of <<provider index, result>> the       *)
(* fallback scan of this call has obtained.                                *)
(***************************************************************************)
\* lines 168-177: the call, up to the lock; rec is the caller's record at the call
GnpEnter(c, site, rec) ==
    IF proxy_queue # <<>>
    THEN \* get_nowait
         /\ proxy_queue' = Tail(proxy_queue)
         /\ caller' = [caller EXCEPT ![c] = [rec EXCEPT !.pc = "gret", !.site = site,
                                                       !.at_call = proxy_queue,
                                                       !.scan = <<>>, !.idx = 0,
                                                       !.ret = Head(proxy_queue)]]
         /\ running' = c
         /\ UNCHANGED lock
    ELSE LET r == fallback_enter_scan(lock, c)
         IN  /\ lock' = r.lock
             /\ caller' = [caller EXCEPT ![c] = [rec EXCEPT
                               !.pc = IF r.acquired THEN "gscan" ELSE "glockwait",
                               !.site = site, !.at_call = proxy_queue,
                               !.scan = <<>>, !.idx = 1, !.ret = NoneVal]]
             /\ running' = IF r.acquired THEN c ELSE Idle
             /\ UNCHANGED proxy_queue

\* a task calls get_next_proxy itself
G_Call(c) ==
    /\ running = Idle
    /\ caller[c].pc = "idle"
    /\ caller[c].calls < MaxCalls
    /\ GnpEnter(c, "direct", [caller[c] EXCEPT !.op = "gnp", !.calls = @ + 1])
    /\ UNCHANGED <<cfgVars, stop_event, invalid_proxy_count, preload_task, closer,
                   execVars, valVars>>

\* line 177: the lock is handed to the waiting caller
G_LockGranted(c) ==
    /\ running = Idle
    /\ caller[c].pc = "glockwait"
    /\ c \in lock.woken
    /\ lock' = LockResume(lock, c)
    /\ caller' = [caller EXCEPT ![c].pc = "gscan", ![c].idx = 1]
    /\ running' = c
    /\ UNCHANGED <<cfgVars, proxy_queue, stop_event, invalid_proxy_count, preload_task, closer, execVars, valVars>>

\* A plausible slip: the scan goes on after a provider answered
GnpGotKeepScanning(c, proxy) ==
    /\ caller' = [caller EXCEPT ![c].scan = Append(@, <<caller[c].idx, proxy>>),
                                ![c].idx = @ + 1, ![c].pc = "gscan",
                                ![c].ret = IF Truthy(proxy) THEN proxy ELSE @]
    /\ UNCHANGED lock

\* lines 180-182: what the fallback scan does with a provider's answer
GnpGot(c, proxy) ==
    IF Truthy(proxy)
    THEN /\ lock' = ReleaseLock(lock)
         /\ caller' = [caller EXCEPT ![c].scan = Append(@, <<caller[c].idx, proxy>>),
                                     ![c].ret = proxy, ![c].pc = "gret"]
    ELSE /\ caller' = [caller EXCEPT ![c].scan = Append(@, <<caller[c].idx, proxy>>),
                                     ![c].idx = @ + 1, ![c].pc = "gscan"]
         /\ UNCHANGED lock

\* lines 178-179 and 183: the head of the fallback loop
G_ScanHead(c) ==
    /\ running = c
    /\ caller[c].pc = "gscan"
    /\ IF caller[c].idx > Len(providers)
       THEN /\ lock' = ReleaseLock(lock)
            /\ caller' = [caller EXCEPT ![c].ret = NoneVal, ![c].pc = "gret"]
            /\ UNCHANGED running
       ELSE IF providers[caller[c].idx].kind = "debug"
       THEN /\ GnpGot(c, providers[caller[c].idx].proxy)
            /\ UNCHANGED running
       ELSE /\ caller' = [caller EXCEPT ![c].pc = "gfetch"]
            /\ running' = Idle
            /\ UNCHANGED lock
    /\ UNCHANGED <<cfgVars, proxy_queue, stop_event, invalid_proxy_count,
                   preload_task, closer, execVars, valVars>>

\* line 179: RemoteProxyProvider.get_proxy returns
G_FetchReturn(c) ==
    /\ running = Idle
    /\ caller[c].pc = "gfetch"
    /\ \E outcome \in OutcomesOf(providers[caller[c].idx]) :
          GnpGot(c, RemoteGetProxy(outcome))
    /\ running' = c
    /\ UNCHANGED <<cfgVars, proxy_queue, stop_event, invalid_proxy_count,
                   preload_task, closer, execVars, valVars>>

\* the fields of a caller that belong to one call of get_next_proxy
ClearGnpFields(rec) ==
    [rec EXCEPT !.site = "none", !.idx = 0, !.scan = <<>>, !.at_call = <<>>,
                !.ret = NoneVal]

\* line 179: the provider call raises an exception, which leaves
\* `async with self.lock` and get_next_proxy
G_FetchRaise(c) ==
    /\ running = Idle
    /\ caller[c].pc = "gfetch"
    /\ caller[c].site = "direct"
    /\ lock' = ReleaseLock(lock)
    /\ caller' = [caller EXCEPT ![c] = [ClearGnpFields(@) EXCEPT !.pc = "idle",
                                                                 !.op = "gnp_raised"]]
    /\ UNCHANGED <<cfgVars, proxy_queue, stop_event, invalid_proxy_count,
                   preload_task, closer, execVars, valVars, running>>

\* get_next_proxy returns to the task that called it directly
G_Return(c) ==
    /\ running = c
    /\ caller[c].pc = "gret"
    /\ caller[c].site = "direct"
    /\ caller' = [caller EXCEPT ![c] = [ClearGnpFields(@) EXCEPT !.pc = "idle"]]
    /\ running' = Idle
    /\ UNCHANGED <<cfgVars, poolVars, preload_task, closer, execVars, valVars>>

(***************************************************************************)
(* ProxyPool.close                                                         *)
(*                                                                         *)
(* closer.pc: "idle", "waitfor" (line 190, before the deadline),           *)
(* "cancelling" (line 190, wait_for has cancelled the task at the deadline *)
(* and waits for it to end).  outcome is how the last call ended.          *)
(* The 5 s deadline of wait_for is a timer that may fire at any moment at  *)
(* which the task has not ended.                                           *)
(***************************************************************************)
\* A plausible slip: the test of line 188 is left out
close_always_waits(task) == TRUE

\* line 188
close_must_wait(task) == task.pc # "none" /\ ~TaskDone(task)

\* lines 187-190: the call, up to wait_for.  wait_for on a task that is done
\* returns its result or raises its CancelledError without suspending, and
\* wait_for(None) raises TypeError.
C_Call ==
    /\ running = Idle
    /\ closer.pc = "idle"
    /\ closer.calls < MaxCloses
    /\ stop_event' = TRUE
    /\ closer' = IF ~close_must_wait(preload_task)
                 THEN [closer EXCEPT !.calls = @ + 1, !.outcome = "returned"]
                 ELSE IF preload_task.pc = "none"
                 THEN [closer EXCEPT !.calls = @ + 1, !.outcome = "TypeError"]
                 ELSE IF preload_task.pc = "cancelled"
                 THEN [closer EXCEPT !.calls = @ + 1, !.outcome = "CancelledError"]
                 ELSE IF preload_task.pc = "done"
                 THEN [closer EXCEPT !.calls = @ + 1, !.outcome = "returned"]
                 ELSE [closer EXCEPT !.calls = @ + 1, !.pc = "waitfor", !.outcome = "pending"]
    /\ UNCHANGED <<cfgVars, proxy_queue, lock, invalid_proxy_count,
                   preload_task, caller, execVars, valVars, running>>

\* line 190: the task ended by itself before the deadline
C_WaitDone ==
    /\ running = Idle
    /\ closer.pc = "waitfor"
    /\ TaskDone(preload_task)
    /\ closer' = [closer EXCEPT !.pc = "idle",
                                !.outcome = IF preload_task.pc = "done" THEN "returned"
                                            ELSE "CancelledError"]
    /\ UNCHANGED <<cfgVars, poolVars, preload_task, caller, execVars, valVars, running>>

\* A plausible slip: at the deadline close() gives up and returns
C_TimeoutGiveUp ==
    /\ running = Idle
    /\ closer.pc = "waitfor"
    /\ ~TaskDone(preload_task)
    /\ preload_task.pc # "created"
    /\ closer' = [closer EXCEPT !.pc = "idle", !.outcome = "returned", !.timed_out = TRUE]
    /\ UNCHANGED <<cfgVars, poolVars, preload_task, caller, execVars, valVars, running>>

\* line 190: the deadline passes; wait_for cancels the task and waits for it.
\* A task that was created runs its first step before any later timer fires.
C_Timeout ==
    /\ running = Idle
    /\ closer.pc = "waitfor"
    /\ ~TaskDone(preload_task)
    /\ preload_task.pc # "created"
    /\ preload_task' = [preload_task EXCEPT !.cancel = TRUE]
    /\ closer' = [closer EXCEPT !.pc = "cancelling", !.timed_out = TRUE]
    /\ UNCHANGED <<cfgVars, poolVars, caller, execVars, valVars, running>>

\* lines 190-194: the cancelled task has ended.  When it ended by returning,
\* wait_for returns; when it ended by CancelledError, wait_for raises
\* TimeoutError, cancel() of the ended task does nothing and awaiting it raises
\* its CancelledError.
C_AfterCancel ==
    /\ running = Idle
    /\ closer.pc = "cancelling"
    /\ TaskDone(preload_task)
    /\ closer' = [closer EXCEPT !.pc = "idle",
                                !.outcome = IF preload_task.pc = "done" THEN "returned"
                                            ELSE "CancelledError"]
    /\ UNCHANGED <<cfgVars, poolVars, preload_task, caller, execVars, valVars, running>>

(***************************************************************************)
(* BaseApiClient._request_with_retry                                       *)
(*                                                                         *)
(* caller[c].pc: "attempt" (line 140, the loop test), "request" (line 143, *)
(* the request is in flight).  get_next_proxy is called from three sites:  *)
(* "create" (line 70, from _get_http_client at line 142), "retry" (line    *)
(* 153) and "refresh" (line 70, from _refresh_client at line 154).         *)
(* got is what the transport answered last, e is the exception the handler *)
(* holds, takes counts the calls of get_next_proxy.                        *)
(***************************************************************************)
RetryStatusCodes == {429, 500, 502, 503, 504}

\* the tuple self.retry_exceptions
RetryExceptions == {"RequestError", "ProxyError", "ConnectTimeout", "ConnectionResetError"}

\* the base class of each exception class (httpx and the builtins)
ExcParent ==
    [ HTTPError |-> "Exception", RequestError |-> "HTTPError",
      TransportError |-> "RequestError", TimeoutException |-> "TransportError",
      ConnectTimeout |-> "TimeoutException", ReadTimeout |-> "TimeoutException",
      ProxyError |-> "TransportError", HTTPStatusError |-> "HTTPError",
      ConnectionResetError |-> "ConnectionError", ConnectionError |-> "OSError",
      OSError |-> "Exception", RuntimeError |-> "Exception", Exception |-> "BaseException",
      BaseException |-> "object" ]

RECURSIVE IsSubclass(_, _)
IsSubclass(cls, base) ==
    IF cls = base THEN TRUE
    ELSE IF cls = "object" THEN FALSE
    ELSE IsSubclass(ExcParent[cls], base)

\* A plausible slip: the handler catches every exception
catches_everything(exc) == TRUE

\* `except self.retry_exceptions`
IsRetryException(exc) == \E base \in RetryExceptions : IsSubclass(exc, base)

\* A plausible slip: 200 is the only status that is returned
only_200_is_success(status) == status # 200

\* line 144
is_retry_status(status) == status \in RetryStatusCodes

\* A plausible slip: the retry limit is never reached
never_exhausted(retries, max_retries) == FALSE

\* line 156
retry_exhausted(retries, max_retries) == retries > max_retries

\* what client.request can do: answer with a status, or raise
StatusCodes == {200, 404, 503}

RaisedByRequest == {"ConnectTimeout", "ConnectionResetError", "RuntimeError"}

RequestOutcomes ==
    { [kind |-> "response", status |-> s, exc |-> ""] : s \in StatusCodes }
    \cup { [kind |-> "raised", status |-> 0, exc |-> x] : x \in RaisedByRequest }

NoOutcome == [kind |-> "none", status |-> 0, exc |-> "", attempt |-> 0]

(***************************************************************************)
(* httpx.AsyncClient objects.  An object is kept as long as something      *)
(* refers to it: self._async_client, or the local `client` of a request in *)
(* flight.  An identity is used again once its object is unreferenced, as  *)
(* an address in memory is.                                                *)
(***************************************************************************)
ClientIds == 1..(NumCallers + 1)

FreeClient == [proxy |-> NoneVal, closed |-> FALSE, live |-> FALSE]

\* httpx.AsyncClient(..., proxy=self.current_proxy), lines 71-77
NewClient(proxy) == [proxy |-> proxy, closed |-> FALSE, live |-> TRUE]

Referenced(ac, cal) ==
    (IF ac = 0 THEN {} ELSE {ac})
    \cup { cal[c].client : c \in { d \in Callers : cal[d].pc = "request" } }

Collect(cl, refs) == [k \in ClientIds |-> IF k \in refs THEN cl[k] ELSE FreeClient]

FreshId(refs) == CHOOSE k \in ClientIds \ refs : \A j \in ClientIds \ refs : k <= j

\* the call: lines 135-139 (the headers do not bear on the retry loop)
R_Call(c) ==
    /\ running = Idle
    /\ caller[c].pc = "idle"
    /\ caller[c].calls < MaxCalls
    /\ caller' = [caller EXCEPT ![c] = [@ EXCEPT !.pc = "attempt", !.op = "request",
                                                 !.calls = @ + 1, !.retries = 0,
                                                 !.attempts = 0,
                                                 !.got = NoOutcome, !.e = NoOutcome,
                                                 !.outcome = NoOutcome, !.client = 0,
                                                 !.takes = 0]]
    /\ running' = c
    /\ UNCHANGED <<cfgVars, poolVars, preload_task, closer, execVars, valVars>>

\* the request of line 143 is sent through client k: a closed client raises
\* RuntimeError at once, an open one suspends the task
SendRequest(c, rec, k, closed) ==
    IF closed
    THEN /\ caller' = [caller EXCEPT ![c] = [rec EXCEPT
                          !.pc = "idle", !.client = 0, !.attempts = @ + 1,
                          !.got = [kind |-> "raised", status |-> 0, exc |-> "RuntimeError",
                                   attempt |-> rec.attempts + 1],
                          !.outcome = [kind |-> "raised", status |-> 0,
                                       exc |-> "RuntimeError",
                                       attempt |-> rec.attempts + 1]]]
         /\ running' = Idle
    ELSE /\ caller' = [caller EXCEPT ![c] = [rec EXCEPT !.pc = "request", !.client = k,
                                                       !.attempts = @ + 1,
                                                       !.got = NoOutcome]]
         /\ running' = Idle

\* lines 140-143: the loop test, _get_http_client and the request
R_Attempt(c) ==
    /\ running = c
    /\ caller[c].pc = "attempt"
    /\ IF ~(caller[c].retries <= app_config.max_retries)
       THEN \* the loop ends and the function returns None
            /\ caller' = [caller EXCEPT ![c].pc = "idle",
                                        ![c].outcome = [kind |-> "returned_none", status |-> 0,
                                                        exc |-> "", attempt |-> 0]]
            /\ running' = Idle
            /\ UNCHANGED <<proxy_queue, lock>>
       ELSE IF async_client = 0
       THEN \* _create_http_client: line 70
            GnpEnter(c, "create", [caller[c] EXCEPT !.takes = @ + 1])
       ELSE /\ SendRequest(c, caller[c], async_client, clients[async_client].closed)
            /\ UNCHANGED <<proxy_queue, lock>>
    /\ UNCHANGED <<cfgVars, stop_event, invalid_proxy_count, preload_task, closer,
                   execVars, valVars>>

\* lines 70-77 and 130, then line 143: the first client is built and used
R_Created(c) ==
    /\ running = c
    /\ caller[c].pc = "gret"
    /\ caller[c].site = "create"
    /\ current_proxy' = caller[c].ret
    /\ LET k == FreshId(Referenced(async_client, caller))
       IN  /\ async_client' = k
           /\ SendRequest(c, ClearGnpFields(caller[c]), k, FALSE)
           /\ clients' = Collect([clients EXCEPT ![k] = NewClient(caller[c].ret)],
                                 Referenced(k, caller'))
    /\ UNCHANGED <<cfgVars, poolVars, preload_task, closer, valVars>>

\* lines 143-153: the transport answers
R_Response(c) ==
    /\ running = Idle
    /\ caller[c].pc = "request"
    /\ \E o \in RequestOutcomes :
         LET n == caller[c].attempts
             got == [kind |-> o.kind, status |-> o.status, exc |-> o.exc, attempt |-> n]
             raised == IF o.kind = "response"
                       THEN [kind |-> "raised", status |-> o.status,
                             exc |-> "HTTPStatusError", attempt |-> n]
                       ELSE got
         IN  IF o.kind = "response" /\ ~is_retry_status(o.status)
             THEN \* line 150
                  /\ caller' = [caller EXCEPT ![c].pc = "idle", ![c].got = got,
                                              ![c].client = 0,
                                              ![c].outcome = [got EXCEPT !.kind = "returned"]]
                  /\ UNCHANGED <<proxy_queue, lock, running>>
             ELSE IF IsRetryException(raised.exc)
             THEN \* lines 151-153
                  GnpEnter(c, "retry", [caller[c] EXCEPT !.got = got, !.e = raised,
                                                         !.client = 0, !.takes = @ + 1])
             ELSE \* the exception leaves _request_with_retry
                  /\ caller' = [caller EXCEPT ![c].pc = "idle", ![c].got = got,
                                              ![c].client = 0, ![c].outcome = raised]
                  /\ UNCHANGED <<proxy_queue, lock, running>>
    /\ clients' = Collect(clients, Referenced(async_client, caller'))
    /\ UNCHANGED <<cfgVars, stop_event, invalid_proxy_count, preload_task, closer,
                   async_client, current_proxy, valVars>>

\* lines 153-154 and 124-126: the address of line 153 is dropped, the old client
\* is closed and _create_http_client asks the pool again
R_Refresh(c) ==
    /\ running = c
    /\ caller[c].pc = "gret"
    /\ caller[c].site = "retry"
    /\ clients' = IF async_client = 0 THEN clients
                  ELSE [clients EXCEPT ![async_client].closed = TRUE]
    /\ GnpEnter(c, "refresh", [ClearGnpFields(caller[c]) EXCEPT !.takes = @ + 1])
    /\ UNCHANGED <<cfgVars, stop_event, invalid_proxy_count, preload_task, closer,
                   async_client, current_proxy, valVars>>

\* lines 70-77, 126 and 155-158: the new client is in place
R_Refreshed(c) ==
    /\ running = c
    /\ caller[c].pc = "gret"
    /\ caller[c].site = "refresh"
    /\ current_proxy' = caller[c].ret
    /\ IF retry_exhausted(caller[c].retries + 1, app_config.max_retries)
       THEN \* `raise` re-raises the exception the handler holds
            /\ caller' = [caller EXCEPT ![c] = [ClearGnpFields(@) EXCEPT
                              !.pc = "idle", !.retries = @ + 1,
                              !.outcome = caller[c].e, !.e = NoOutcome]]
            /\ running' = Idle
       ELSE /\ caller' = [caller EXCEPT ![c] = [ClearGnpFields(@) EXCEPT
                              !.pc = "attempt", !.retries = @ + 1, !.e = NoOutcome]]
            /\ UNCHANGED running
    /\ LET k == FreshId(Referenced(async_client, caller))
       IN  /\ async_client' = k
           /\ clients' = Collect([clients EXCEPT ![k] = NewClient(caller[c].ret)],
                                 Referenced(k, caller'))
    /\ UNCHANGED <<cfgVars, poolVars, preload_task, closer, valVars>>

(***************************************************************************)
(* The validator applied to one address string                             *)
(***************************************************************************)
Validate ==
    /\ vResult = "unset"
    /\ vResult' = IF _validate_proxy(Assemble(vParts)) THEN "valid" ELSE "invalid"
    /\ UNCHANGED <<cfgVars, poolVars, preload_task, closer, caller, execVars, running,
                   vParts>>

(***************************************************************************)
(* Initial states: the pool and the client after construction              *)
(***************************************************************************)
Configs ==
    [enable : BOOLEAN, use : {"yi", "debug_proxy"},
     proxy_platforms : SeqsUpTo(PlatformEntries, MaxPlatforms),
     max_retries : 0..MaxRetries]

DebugProxies == {NoneVal, AddrA}

NoParts ==
    [scheme |-> [chars |-> <<>>, name |-> ""], sep |-> [chars |-> <<":">>, authority |-> FALSE],
     user |-> <<>>, host |-> <<>>, port |-> [kind |-> "absent", n |-> 0, pad |-> 0],
     tail |-> <<>>]

InitCaller ==
    [pc |-> "idle", op |-> "none", site |-> "none", idx |-> 0, scan |-> <<>>,
     at_call |-> <<>>, ret |-> NoneVal, calls |-> 0, retries |-> 0, attempts |-> 0,
     got |-> NoOutcome, e |-> NoOutcome, outcome |-> NoOutcome,
     client |-> 0, takes |-> 0]

\* ProxyPool.__init__ and BaseApiClient.__init__
Constructed(conf, dbg, dbg_proxy) ==
    /\ app_config = conf
    /\ debug = dbg
    /\ debug_proxy = dbg_proxy
    /\ providers = _init_providers(conf, dbg, dbg_proxy)
    /\ proxy_queue = <<>>
    /\ lock = [locked |-> FALSE, waiters |-> <<>>, woken |-> {}]
    /\ stop_event = FALSE
    /\ invalid_proxy_count = 0
    /\ preload_task = _start_preload(providers)
    /\ closer = [pc |-> "idle", calls |-> 0, outcome |-> "none", timed_out |-> FALSE]
    /\ caller = [c \in Callers |-> InitCaller]
    /\ async_client = 0
    /\ clients = [k \in ClientIds |-> FreeClient]
    /\ current_proxy = NoneVal
    /\ running = Idle

\* the pool with tasks that call get_next_proxy and close
Init ==
    /\ \E conf \in Configs, dbg \in BOOLEAN, dbg_proxy \in DebugProxies :
          conf.max_retries = 0 /\ Constructed(conf, dbg, dbg_proxy)
    /\ vParts = NoParts
    /\ vResult = "unset"

WorkerRun ==
    \/ W_Loop
    \/ W_LockGranted
    \/ W_ScanHead
    \/ W_FetchReturn
    \/ W_After

WorkerStep ==
    \/ WorkerRun
    \/ W_Cancelled

GnpStep(c) ==
    \/ G_LockGranted(c)
    \/ G_ScanHead(c)
    \/ G_FetchReturn(c)

CloseStep ==
    \/ C_Call
    \/ C_WaitDone
    \/ C_Timeout
    \/ C_AfterCancel

Next ==
    \/ WorkerStep
    \/ CloseStep
    \/ \E c \in Callers : G_Call(c) \/ GnpStep(c) \/ G_Return(c)

Spec == Init /\ [][Next]_vars

\* the client with tasks that call _request_with_retry
ExecConfigs ==
    { conf \in Configs :
        /\ conf.use = "yi"
        /\ conf.proxy_platforms \in { <<>>, <<[name |-> "yi", priority |-> 2, link |-> "L1"]>> } }

InitExec ==
    /\ \E conf \in ExecConfigs : Constructed(conf, FALSE, NoneVal)
    /\ vParts = NoParts
    /\ vResult = "unset"

RequestStep(c) ==
    \/ R_Call(c)
    \/ R_Attempt(c)
    \/ R_Created(c)
    \/ R_Response(c)
    \/ R_Refresh(c)
    \/ R_Refreshed(c)

NextExec ==
    \/ WorkerRun
    \/ \E c \in Callers : GnpStep(c) \/ RequestStep(c)

SpecExec == InitExec /\ [][NextExec]_vars

\* the pool with providers whose get_proxy may raise
RaisingConfigs ==
    { conf \in Configs :
        /\ conf.enable
        /\ conf.use = "yi"
        /\ conf.max_retries = 0
        /\ \A k \in 1..Len(conf.proxy_platforms) : conf.proxy_platforms[k].name = "yi" }

InitRaising ==
    /\ \E conf \in RaisingConfigs : Constructed(conf, FALSE, NoneVal)
    /\ vParts = NoParts
    /\ vResult = "unset"

NextRaising ==
    \/ WorkerStep
    \/ W_FetchRaise
    \/ W_CancelledInBackoff
    \/ CloseStep
    \/ \E c \in Callers : G_Call(c) \/ GnpStep(c) \/ G_FetchRaise(c) \/ G_Return(c)

SpecRaising == InitRaising /\ [][NextRaising]_vars

\* the pool under fair scheduling: the event loop runs every task that is ready,
\* timers fire, and every provider call returns.  Nothing obliges a task to call
\* get_next_proxy or close.
FairPlatforms ==
    { <<[name |-> "yi", priority |-> 1, link |-> "LR"]>>,
      <<[name |-> "yi", priority |-> 1, link |-> "LR"],
        [name |-> "yi", priority |-> 2, link |-> "L1"]>>,
      <<[name |-> "yi", priority |-> 2, link |-> "L1"],
        [name |-> "yi", priority |-> 3, link |-> "LR"]>>,
      <<[name |-> "yi", priority |-> 2, link |-> "L1"]>> }

FairConfigs ==
    [enable : {TRUE}, use : {"yi"}, proxy_platforms : FairPlatforms, max_retries : {0}]

InitFair ==
    /\ \E conf \in FairConfigs : Constructed(conf, FALSE, NoneVal)
    /\ vParts = NoParts
    /\ vResult = "unset"

SpecFair ==
    /\ InitFair
    /\ [][Next]_vars
    /\ WF_vars(WorkerStep)
    /\ WF_vars(C_WaitDone \/ C_Timeout \/ C_AfterCancel)
    /\ \A c \in Callers : WF_vars(GnpStep(c) \/ G_Return(c))

\* the validator on its own
InitValidate ==
    /\ Constructed([enable |-> FALSE, use |-> "yi", proxy_platforms |-> <<>>,
                    max_retries |-> 0], FALSE, NoneVal)
    /\ vParts \in AddressParts
    /\ vResult = "unset"

NextValidate == Validate

SpecValidate == InitValidate /\ [][NextValidate]_vars

(***************************************************************************)
(* Properties                                                              *)
(***************************************************************************)
Scanners ==
    (IF preload_task.pc \in {"scan", "fetch"} THEN {Worker} ELSE {})
    \cup { c \in Callers : caller[c].pc \in {"gscan", "gfetch"} }

CloseCompleted == closer.calls >= 1 /\ closer.pc = "idle"

\* C1: the buffer proxy_queue never holds more than one address, whatever the
\* interleaving of the preload worker's puts and the consumers' takes.
C1_BufferAtMostOne == Len(proxy_queue) <= 1

\* C1 witness: a consumer has called get_next_proxy, the buffer is full, and the
\* worker has just been refused a put (QueueFull) in the middle of a pass.
C1_Witness ==
    /\ Len(proxy_queue) = 1
    /\ preload_task.pc = "after"
    /\ preload_task.i <= Len(providers)
    /\ \E c \in Callers : caller[c].calls > 0 /\ caller[c].pc = "idle"

C2_ReturnValue(c) ==
    LET r == caller[c]
    IN  IF r.at_call # <<>>
        THEN r.ret = Head(r.at_call) /\ r.scan = <<>>
        ELSE /\ \A k \in 1..Len(r.scan) : r.scan[k][1] = k
             /\ \A k \in 1..(Len(r.scan) - 1) : ~Truthy(r.scan[k][2])
             /\ IF r.ret = NoneVal
                THEN /\ Len(r.scan) = Len(providers)
                     /\ \A k \in 1..Len(r.scan) : r.scan[k][2] = NoneVal
                ELSE /\ r.scan # <<>>
                     /\ r.ret = r.scan[Len(r.scan)][2]
                     /\ Truthy(r.ret)

C2_ProvidersAscending ==
    \A i, j \in 1..Len(providers) :
        i < j => PriorityKey(providers[i].platform) <= PriorityKey(providers[j].platform)

C2_TakesFromBuffer ==
    \A c \in Callers :
        (caller[c].pc = "idle" /\ caller'[c].calls = caller[c].calls + 1)
            => /\ caller'[c].at_call = proxy_queue
               /\ proxy_queue # <<>>
                     => /\ caller'[c].pc = "gret"
                        /\ caller'[c].ret = Head(proxy_queue)
                        /\ proxy_queue' = Tail(proxy_queue)
               /\ proxy_queue = <<>> => proxy_queue' = <<>>

\* C2: get_next_proxy returns the buffered address and removes it from the buffer
\* when the buffer is non-empty at the call; otherwise it returns the first
\* non-empty answer of a scan of the providers in list order, the list being in
\* ascending priority; it returns none only when every provider answered none.
C2_GetNextProxy ==
    /\ [](C2_ProvidersAscending
          /\ \A c \in Callers : caller[c].pc = "gret" => C2_ReturnValue(c))
    /\ [][C2_TakesFromBuffer]_vars

\* C2 witness: with an empty buffer the first provider answered none and the
\* second provider's address is returned.
C2_Witness ==
    \E c \in Callers :
        /\ caller[c].pc = "gret"
        /\ caller[c].at_call = <<>>
        /\ Len(caller[c].scan) = 2
        /\ caller[c].scan[1][2] = NoneVal
        /\ caller[c].ret = AddrB

RetryableFailure(got) ==
    \/ got.kind = "raised" /\ got.exc \in RetryExceptions \cup {"ReadTimeout", "TransportError"}
    \/ got.kind = "response" /\ got.status \in {429, 500, 502, 503, 504}

RequestEnded(c) ==
    caller[c].op = "request" /\ caller[c].pc = "idle" /\ caller[c].outcome.kind # "none"

\* C3: a request never makes more than max_retries + 1 attempts, and a request
\* whose attempts all failed with a retryable condition ends by raising the error
\* of its last attempt.
C3_RetryLimit ==
    \A c \in Callers :
        /\ caller[c].attempts <= app_config.max_retries + 1
        /\ (RequestEnded(c) /\ RetryableFailure(caller[c].got))
              => /\ caller[c].outcome.kind = "raised"
                 /\ caller[c].outcome.attempt = caller[c].attempts
                 /\ caller[c].outcome.attempt = caller[c].got.attempt
                 /\ caller[c].outcome.status = caller[c].got.status
                 /\ caller[c].outcome.exc = IF caller[c].got.kind = "response"
                                            THEN "HTTPStatusError"
                                            ELSE caller[c].got.exc

\* C3 witness: with max_retries = 1 a request has ended after two attempts that
\* both raised, by raising the second attempt's ConnectTimeout.
C3_Witness ==
    \E c \in Callers :
        /\ RequestEnded(c)
        /\ app_config.max_retries = 1
        /\ caller[c].attempts = 2
        /\ caller[c].outcome.kind = "raised"
        /\ caller[c].outcome.exc = "ConnectTimeout"
        /\ caller[c].outcome.attempt = 2

\* C4: a response whose status is in the retry-status set is retried up to the
\* max_retries limit: a request that ends by the error of such a response has
\* made max_retries + 1 attempts.
C4_StatusRetried ==
    \A c \in Callers :
        (RequestEnded(c) /\ caller[c].got.kind = "response"
            /\ caller[c].got.status \in {429, 500, 502, 503, 504})
        => caller[c].attempts = app_config.max_retries + 1

\* C4 witness: with max_retries = 1 a request has ended after one attempt, by the
\* HTTPStatusError of a 503 response.
C4_Witness ==
    \E c \in Callers :
        /\ RequestEnded(c)
        /\ app_config.max_retries = 1
        /\ caller[c].attempts = 1
        /\ caller[c].takes = 1
        /\ caller[c].outcome.kind = "raised"
        /\ caller[c].outcome.exc = "HTTPStatusError"
        /\ caller[c].outcome.status = 503

C5_Returned ==
    \A c \in Callers :
        (/\ caller[c].pc = "request"
         /\ caller'[c].pc # "request"
         /\ caller'[c].got.kind = "response"
         /\ caller'[c].got.status \notin {429, 500, 502, 503, 504})
        => /\ caller'[c].pc = "idle"
           /\ caller'[c].outcome = [caller'[c].got EXCEPT !.kind = "returned"]
           /\ caller'[c].got.attempt = caller[c].attempts
           /\ caller'[c].attempts = caller[c].attempts
           /\ caller'[c].retries = caller[c].retries
           /\ caller'[c].takes = caller[c].takes
           /\ async_client' = async_client
           /\ current_proxy' = current_proxy
           /\ proxy_queue' = proxy_queue
           /\ lock' = lock
           /\ (async_client # 0 => clients'[async_client] = clients[async_client])

\* C5: when an attempt is answered with a status outside the retry-status set,
\* _request_with_retry returns that response right after the attempt: no further
\* attempt, no increment of the counters, no address requested from the pool and
\* no transport rebuilt.
C5_SuccessReturnsAtOnce == [][C5_Returned]_vars

\* C5 witness: a request has returned the 200 response of its second attempt.
C5_Witness ==
    \E c \in Callers :
        /\ RequestEnded(c)
        /\ caller[c].outcome.kind = "returned"
        /\ caller[c].outcome.status = 200
        /\ caller[c].outcome.attempt = 2

C6_SecondCall ==
    (closer'.calls = closer.calls + 1 /\ (CloseCompleted \/ preload_task.pc = "none"))
        => /\ closer'.pc = "idle"
           /\ closer'.outcome = "returned"
           /\ stop_event'
           /\ preload_task' = preload_task
           /\ (CloseCompleted => UNCHANGED <<poolVars, caller, running>>)

\* C6: close() is idempotent: once a call of close() has ended, the stop signal is
\* set and the preload task is ended or absent; a further call, and a call on a
\* pool without a preload task, ends at once without an error and leaves the
\* pool as it was.
C6_CloseIdempotent ==
    /\ [](CloseCompleted => stop_event /\ preload_task.pc \in {"none", "done", "cancelled"})
    /\ [][C6_SecondCall]_vars

\* C6 witness: close() was called twice on a pool whose preload task had to be
\* cancelled at the deadline of the first call, and the second call has returned.
C6_Witness ==
    /\ closer.calls = 2
    /\ closer.pc = "idle"
    /\ closer.outcome = "returned"
    /\ closer.timed_out
    /\ preload_task.pc = "done"

C7_TaskStaysEnded ==
    TaskDone(preload_task)
        => /\ preload_task' = preload_task
           /\ Len(proxy_queue') <= Len(proxy_queue)
           /\ invalid_proxy_count' = invalid_proxy_count

\* C7: close() sets the stop signal before it waits; the preload task is
\* cancelled only at the deadline of that wait; when close() has returned the
\* task is ended, and an ended task fetches from no provider and puts nothing
\* into the buffer.
C7_Shutdown ==
    /\ [](/\ closer.pc \in {"waitfor", "cancelling"} => stop_event
          /\ preload_task.cancel => (closer.timed_out /\ stop_event)
          /\ (CloseCompleted /\ closer.outcome = "returned")
                => preload_task.pc \in {"none", "done", "cancelled"})
    /\ [][C7_TaskStaysEnded]_vars

\* C7 witness: close() has returned after the deadline passed and the task,
\* cancelled in the middle of a provider fetch, ended.
C7_Witness ==
    /\ CloseCompleted
    /\ closer.outcome = "returned"
    /\ closer.timed_out
    /\ preload_task.pc = "done"
    /\ preload_task.cancel

\* C8: _validate_proxy accepts an address exactly when its scheme is http or
\* https, its host is an IPv4 dotted quad and its port is present and within
\* 1..65535.
C8_ValidateIff ==
    vResult # "unset" => (vResult = "valid" <=> ExpectedValid(vParts))

\* C8 witness: an https address with a user part, a padded port and a path is
\* accepted.
C8_Witness ==
    /\ vResult = "valid"
    /\ vParts.scheme.name = "https"
    /\ vParts.user # <<>>
    /\ vParts.port.pad = 2
    /\ vParts.tail # <<>>

\* C9: at most one task is inside a provider scan at any time, the preload
\* worker's scan and the fallback scans of get_next_proxy alike.
C9_ScansExclusive == Cardinality(Scanners) <= 1

\* C9 witness: the worker is suspended in a provider fetch while two callers of
\* get_next_proxy wait for the lock.
C9_Witness ==
    /\ preload_task.pc = "fetch"
    /\ \A c \in Callers : caller[c].pc = "glockwait"

\* C10: with proxy usage disabled the pool has no provider and no preload task,
\* the buffer stays empty and every get_next_proxy call returns none.
C10_Disabled ==
    ~app_config.enable
        => /\ providers = <<>>
           /\ preload_task.pc = "none"
           /\ proxy_queue = <<>>
           /\ \A c \in Callers : caller[c].pc = "gret" => caller[c].ret = NoneVal

\* C10 witness: proxy usage is disabled although a debug address and platforms
\* are configured, and a get_next_proxy call has returned none.
C10_Witness ==
    /\ ~app_config.enable
    /\ debug
    /\ debug_proxy # NoneVal
    /\ app_config.proxy_platforms # <<>>
    /\ \E c \in Callers : caller[c].pc = "gret" /\ caller[c].ret = NoneVal

C11_Propagated ==
    \A c \in Callers :
        (/\ caller[c].pc = "request"
         /\ caller'[c].pc # "request"
         /\ caller'[c].got.kind = "raised"
         /\ caller'[c].got.exc \notin {"ConnectTimeout", "ConnectionResetError"})
        => /\ caller'[c].pc = "idle"
           /\ caller'[c].outcome = caller'[c].got
           /\ caller'[c].outcome.attempt = caller[c].attempts
           /\ caller'[c].attempts = caller[c].attempts
           /\ caller'[c].retries = caller[c].retries
           /\ caller'[c].takes = caller[c].takes
           /\ async_client' = async_client
           /\ current_proxy' = current_proxy
           /\ proxy_queue' = proxy_queue
           /\ lock' = lock
           /\ (async_client # 0 => clients'[async_client] = clients[async_client])

\* C11: when an attempt raises an exception outside the retryable set,
\* _request_with_retry lets it out to the caller at once: no further attempt, no
\* increment of the counters, no address requested from the pool and no
\* transport rebuilt.
C11_FatalPropagates == [][C11_Propagated]_vars

\* C11 witness: with max_retries = 1 a request has ended by the RuntimeError its
\* second attempt raised, the first attempt having been retried.
C11_Witness ==
    \E c \in Callers :
        /\ RequestEnded(c)
        /\ app_config.max_retries = 1
        /\ caller[c].outcome.kind = "raised"
        /\ caller[c].outcome.exc = "RuntimeError"
        /\ caller[c].outcome.attempt = 2
        /\ caller[c].retries = 1

\* C12: two concurrent _request_with_retry calls on one executor never have
\* their requests in flight through the same transport handle.
C12_NoSharedTransport ==
    \A c, d \in Callers :
        (c # d /\ caller[c].pc = "request" /\ caller[d].pc = "request")
            => caller[c].client # caller[d].client

\* C12 witness: the requests of two calls are in flight through one handle, which
\* is the executor's _async_client.
C12_Witness ==
    \E c, d \in Callers :
        /\ c # d
        /\ caller[c].pc = "request"
        /\ caller[d].pc = "request"
        /\ caller[c].client = async_client
        /\ caller[d].client = async_client

\* C13: in one pass of the preload worker a successful put ends the pass: no
\* provider is fetched from after the put (wait_time is 0 from the put to the end
\* of the pass).
C13_PutEndsPass == preload_task.pc = "fetch" => preload_task.wait_time # 0

\* C13 witness: the worker has put the first provider's address into the buffer
\* and is suspended in the fetch from the second provider, in the same pass.
C13_Witness ==
    /\ preload_task.pc = "fetch"
    /\ preload_task.i = 2
    /\ preload_task.wait_time = 0
    /\ proxy_queue = <<AddrB>>
    /\ ~stop_event

\* C14: every address in the buffer passed the validator; an absent or invalid
\* candidate is never buffered.
C14_BufferValidated ==
    \A k \in 1..Len(proxy_queue) :
        proxy_queue[k] # NoneVal /\ _validate_proxy(proxy_queue[k])

\* C14 witness: the worker has turned a candidate down and buffered a valid one,
\* while the fallback scan of get_next_proxy has returned the address "http://",
\* which the validator rejects.
C14_Witness ==
    /\ proxy_queue = <<AddrB>>
    /\ invalid_proxy_count > 0
    /\ \E c \in Callers :
          /\ caller[c].pc = "gret"
          /\ caller[c].ret = HttpPrefix
          /\ ~_validate_proxy(caller[c].ret)

C15_Step ==
    /\ (~stop_event /\ ~preload_task.cancel /\ ~TaskDone(preload_task))
          => ~TaskDone(preload_task')
    /\ (preload_task.pc = "fetch" /\ preload_task'.excs = preload_task.excs + 1)
          => preload_task'.pc = "backoff"
    /\ (preload_task.pc = "backoff" /\ preload_task'.pc # "backoff"
           /\ ~stop_event /\ ~preload_task.cancel)
          => preload_task'.pc \in {"lockwait", "scan", "sleep"}

\* C15: while the stop signal is unset and no cancellation was requested, the
\* preload task does not end: an exception raised by a provider call takes it to
\* the backoff sleep, and from there to the next iteration of its loop.
C15_SurvivesException == [][C15_Step]_vars

\* C15 witness: after an exception was handled the worker is in a new pass,
\* fetching from the first provider, neither stopped nor cancelled.
C15_Witness ==
    /\ preload_task.excs = 1
    /\ preload_task.pc = "fetch"
    /\ preload_task.i = 1
    /\ ~stop_event
    /\ ~preload_task.cancel

\* C16: a cancellation of the preload task ends it without an error at whichever
\* suspension point it is: the task does not end by CancelledError, and the
\* close() that cancelled it does not raise.
C16_CancelEndsQuietly ==
    /\ preload_task.pc # "cancelled"
    /\ closer.outcome # "CancelledError"

\* C16 witness: the task, cancelled at the deadline of close() while in the
\* backoff sleep, has ended by CancelledError, and close() has raised it.
C16_Witness ==
    /\ preload_task.pc = "cancelled"
    /\ preload_task.excs = 1
    /\ closer.pc = "idle"
    /\ closer.timed_out
    /\ closer.outcome = "CancelledError"

HasReliableProvider ==
    \E k \in 1..Len(providers) : providers[k].platform.link \in ReliableLinks

\* C17: while the stop signal is unset, if the buffer is empty and a provider
\* answers every request with a valid address, then the buffer eventually holds
\* an address, with get_next_proxy callers competing for the lock.
C17_BufferFills ==
    (HasReliableProvider /\ proxy_queue = <<>> /\ ~stop_event)
        ~> (proxy_queue # <<>> \/ stop_event)

\* C17 witness: with the reliable provider second in the list, the stop signal
\* unset and the buffer empty, the worker waits for the lock held by a caller
\* that is in a provider fetch, a second caller waiting too.
C17_Witness ==
    /\ HasReliableProvider
    /\ ~(providers[1].platform.link \in ReliableLinks)
    /\ ~stop_event
    /\ proxy_queue = <<>>
    /\ preload_task.pc = "lockwait"
    /\ \E c, d \in Callers : caller[c].pc = "gfetch" /\ caller[d].pc = "glockwait"

\* C18: one address is taken from the pool per retryable failure: between
\* attempts, a request has called get_next_proxy at most once for the first
\* transport and once for each failure it has handled.
C18_OneTakePerFailure ==
    \A c \in Callers :
        (caller[c].op = "request" /\ caller[c].pc \in {"attempt", "request", "idle"})
            => caller[c].takes <= caller[c].retries + 1

\* C18 witness: a request is in its second attempt, after one handled failure,
\* and has called get_next_proxy twice for that failure.
C18_Witness ==
    \E c \in Callers :
        /\ caller[c].pc = "request"
        /\ caller[c].attempts = 2
        /\ caller[c].retries = 1
        /\ caller[c].takes = 3

\* C19: no request is sent through a closed transport: when a call is at the
\* point of sending (lines 142-143), the handle that _get_http_client gives it
\* is not closed.
C19_NoClosedTransportUsed ==
    \A c \in Callers :
        (/\ caller[c].pc = "attempt"
         /\ caller[c].retries <= app_config.max_retries
         /\ async_client # 0)
            => ~clients[async_client].closed

\* C19 witness: a call is at the point of sending while _async_client is the
\* handle that another call has closed in _refresh_client, that call being
\* suspended in get_next_proxy before the new handle is assigned.
C19_Witness ==
    \E c, d \in Callers :
        /\ c # d
        /\ caller[c].pc = "attempt"
        /\ async_client # 0
        /\ clients[async_client].closed
        /\ caller[d].site = "refresh"
        /\ caller[d].pc \in {"glockwait", "gfetch"}

C20_NotHeldByEndedTask ==
    TaskDone(preload_task)
        => /\ \A k \in 1..Len(lock.waiters) : lock.waiters[k] # Worker
           /\ Worker \notin lock.woken
           /\ lock.locked => \E c \in Callers : caller[c].pc \in {"gscan", "gfetch"}

\* C20: the lock is never left held by an ended preload task, whether it ended on
\* the stop signal in the middle of a scan or by a cancellation while it held the
\* lock; and every get_next_proxy call that is waiting for the lock or scanning
\* eventually returns, provider calls returning.
C20_GuardReleased ==
    /\ []C20_NotHeldByEndedTask
    /\ \A c \in Callers :
          (caller[c].pc \in {"glockwait", "gscan", "gfetch"}) ~> (caller[c].pc = "idle")

\* C20 witness: the preload task, cancelled at the deadline of close(), has ended
\* and the lock it left is handed to a get_next_proxy caller that was waiting.
C20_Witness ==
    /\ preload_task.pc = "done"
    /\ preload_task.cancel
    /\ closer.timed_out
    /\ ~lock.locked
    /\ \E c \in Callers : caller[c].pc = "glockwait" /\ c \in lock.woken

====
